---- MODULE Spec2Model ----
(***************************************************************************)
(* MultiField: a vector of int fields, one std::shared_mutex per field,    *)
(* and the worker threads that apply operation streams to it               *)
(* (demo_lab4.cpp; lab4.cpp is the same design with "{", "}" brackets).    *)
(***************************************************************************)
EXTENDS Integers, Sequences, FiniteSets, TLC

(* ---- bounds of the model ---- *)
NumWorkers == 3
NumFields == 2
MaxOps == 2
MaxTotalOps == 3
MaxVal == 2
TrafficOps == 2
MaxLines == 2
MaxLineLen == 3

Workers == 1..NumWorkers

(* value given to every field by the constructor: init_value = 0 *)
InitValue == 0

(* ---- enum class OpType, struct Op ---- *)
READ == "READ"
WRITE == "WRITE"
STRING_ == "STRING"

Op(t, i, v) == [type |-> t, idx |-> i, value |-> v]

(* indices a stream may name for a store of n fields: all in-range ones,   *)
(* the first out-of-range one and one further out                          *)
Indices(n) == (0..(n - 1)) \cup {n, n + 5}

(* the operations a stream may hold: reads of rIdx, writes of wIdx with a   *)
(* value of vs, and the snapshot                                            *)
OpSet(rIdx, wIdx, vs) ==
    {Op(READ, i, 0) : i \in rIdx}
        \cup {Op(WRITE, i, v) : i \in wIdx, v \in vs}
        \cup {Op(STRING_, 0, 0)}

Min(a, b) == IF a <= b THEN a ELSE b

(* the workloads of a run: one stream for each of k workers, at most budget *)
(* operations in all and at most maxLen in one stream.  Threads are         *)
(* interchangeable, so the streams are listed longest first.                *)
RECURSIVE Workloads(_, _, _, _)
Workloads(O, k, budget, maxLen) ==
    IF k = 0 THEN {<<>>}
    ELSE UNION {{<<s>> \o rest : s \in [1..len -> O],
                                rest \in Workloads(O, k - 1, budget - len, len)} :
                len \in 0..Min(maxLen, budget)}

VARIABLES
    m,          \* vals.size() = locks.size(), fixed by the constructor
    vals,       \* MultiField::vals
    locks,      \* MultiField::locks: per field, the exclusive owner (0: none)
                \* and the set of shared owners
    policy,     \* what the library's shared_mutex does with a lock_shared()
                \* that arrives while a lock() is waiting; fixed per build
    ops,        \* the operation stream of each worker
    pos,        \* each worker's position in its stream (1-based)
    pc,         \* each worker's control point
    acquired,   \* to_string's local vector of shared_locks (field indices)
    i_,         \* to_string's loop index over vals
    oss,        \* to_string's local ostringstream
    readRet,    \* value returned by the worker's latest read call
    strRet,     \* string returned by the worker's latest to_string call
    final,      \* run_test_case's string s: the store's text after the join
    file,       \* the workload file a loader reads: its lines, each a
                \* sequence of whitespace-separated tokens
    loader,     \* the load function applied to it
    loadPc,     \* where the load stands
    loaded,     \* the vector<Op> the load function returned
    \* ---- history variables (observe the run, never steer it) ----
    calls,      \* store calls each worker has made, in order
    returns,    \* number of store calls of each worker that have returned
    committed,  \* per field: value of the latest write that released the guard
    readAcq,    \* committed value of the field when the worker's read locked it
    seen,       \* contents of vals at every instant of the running to_string
    snapVals    \* the values the running / latest to_string has read, in order

vars == <<m, vals, locks, policy, ops, pos, pc, acquired, i_, oss, readRet, strRet,
          final, file, loader, loadPc, loaded,
          calls, returns, committed, readAcq, seen, snapVals>>

loadVars == <<file, loader, loadPc, loaded>>
driverVars == <<final, loadVars>>

storeVars == <<m, vals, locks, policy>>
histVars == <<calls, returns, committed, readAcq, seen, snapVals>>

Fields == 0..(m - 1)

CurOp(w) == ops[w][pos[w]]

(* ---- std::shared_mutex ---- *)
NoOwner == 0
FreeLock == [excl |-> NoOwner, shared |-> {}]

(* the standard leaves open whether a waiting lock() holds back new shared  *)
(* owners; a library either admits them or makes them queue behind it       *)
Policies == {"readers_pass", "writers_first"}

(* a thread is in write(idx) for field i and its lock() has to wait for     *)
(* the shared owners to leave                                               *)
WriterWaiting(i) ==
    /\ locks[i].shared # {}
    /\ \E w \in Workers : pc[w] = "write" /\ ops[w][pos[w]].idx = i

(* lock_shared() returns only while no thread owns the mutex exclusively,   *)
(* and under writers_first only while no lock() is waiting                  *)
CanLockShared(i) ==
    /\ locks[i].excl = NoOwner
    /\ policy = "writers_first" => ~WriterWaiting(i)

(* lock() returns only while no thread owns the mutex in either mode *)
CanLockExclusive(i) == locks[i].excl = NoOwner /\ locks[i].shared = {}

LockShared(i, w) == [locks EXCEPT ![i].shared = @ \cup {w}]
UnlockShared(i, w) == [locks EXCEPT ![i].shared = @ \ {w}]
LockExclusive(i, w) == [locks EXCEPT ![i].excl = w]
UnlockExclusive(i) == [locks EXCEPT ![i].excl = NoOwner]

(* every running to_string call observes the new contents of vals *)
Observe(newVals) ==
    [w \in Workers |-> IF pc[w] \in {"str_lock", "str_read", "str_unlock"}
                       THEN seen[w] \cup {newVals} ELSE seen[w]]

(* ---- MultiField(m, init_value) and the loaded streams ---- *)
Launch(n, workloads) ==
    /\ m = n
    /\ policy \in Policies
    /\ vals = [i \in 0..(n - 1) |-> InitValue]
    /\ locks = [i \in 0..(n - 1) |-> FreeLock]
    /\ ops \in workloads
    /\ pos = [w \in Workers |-> 1]
    /\ pc = [w \in Workers |-> "loop"]
    /\ acquired = [w \in Workers |-> <<>>]
    /\ i_ = [w \in Workers |-> 0]
    /\ oss = [w \in Workers |-> ""]
    /\ readRet = [w \in Workers |-> 0]
    /\ strRet = [w \in Workers |-> ""]
    /\ calls = [w \in Workers |-> <<>>]
    /\ returns = [w \in Workers |-> 0]
    /\ committed = [i \in 0..(n - 1) |-> InitValue]
    /\ readAcq = [w \in Workers |-> 0]
    /\ seen = [w \in Workers |-> {}]
    /\ snapVals = [w \in Workers |-> <<>>]
    /\ final = ""

(* a run whose streams are given: no file is being read *)
NoLoad ==
    /\ file = <<>>
    /\ loader = "none"
    /\ loadPc = "loaded"
    /\ loaded = <<>>

Construct(n, workloads) == Launch(n, workloads) /\ NoLoad

(* ---- load_ops_from_file (demo_lab4.cpp) and load_ops (lab4.cpp) ---- *)
NL == "\n"
NumTokens == {"0", "1"}
Tokens == {"read", "write", "string", "foo"} \cup NumTokens

(* operator>> into an integer: the digits' value *)
NumValue(t) == CASE t = "0" -> 0 [] t = "1" -> 1

(* what an int that was never assigned may hold *)
Indeterminate == {0, 7}

Lines == UNION {[1..len -> Tokens] : len \in 0..MaxLineLen}
Files == UNION {[1..len -> Lines] : len \in 0..MaxLines}

(* the file as the stream sees it: tokens, with a newline after each line *)
RECURSIVE Flatten(_)
Flatten(f) ==
    IF f = <<>> THEN <<>> ELSE Head(f) \o <<NL>> \o Flatten(Tail(f))

(* operator>> first skips whitespace, newlines included *)
RECURSIVE SkipWs(_)
SkipWs(ts) ==
    IF ts # <<>> /\ Head(ts) = NL THEN SkipWs(Tail(ts)) ELSE ts

(* std::getline(ifs, rest): drops everything up to and with the newline *)
RECURSIVE AfterNewline(_)
AfterNewline(ts) ==
    IF ts = <<>> THEN <<>>
    ELSE IF Head(ts) = NL THEN Tail(ts)
    ELSE AfterNewline(Tail(ts))

(* ifs >> x for an integer x, on a good stream: the value x has afterwards, *)
(* whether the stream is still good, and what is left to read.  At the end  *)
(* of the file x is not touched; a token that is no number stores 0.        *)
Extract(ts, junk) ==
    LET a == SkipWs(ts) IN
    IF a = <<>> THEN [val |-> junk, ok |-> FALSE, rest |-> a]
    ELSE IF Head(a) \in NumTokens
         THEN [val |-> NumValue(Head(a)), ok |-> TRUE, rest |-> Tail(a)]
         ELSE [val |-> 0, ok |-> FALSE, rest |-> a]

(* while (ifs >> cmd) { ... }: the loop ends at the end of the file and as  *)
(* soon as an extraction has failed; the Op of that iteration is pushed     *)
(* all the same.  withElse: the loader has the else branch with getline.    *)
RECURSIVE LoadLoop(_, _, _, _)
LoadLoop(ts, acc, withElse, junk) ==
    LET t == SkipWs(ts) IN
    IF t = <<>> THEN acc
    ELSE LET cmd == Head(t)
             r == Tail(t) IN
         IF cmd = "read"
         THEN LET x == Extract(r, junk) IN
              IF x.ok
              THEN LoadLoop(x.rest, Append(acc, Op(READ, x.val, 0)), withElse, junk)
              ELSE Append(acc, Op(READ, x.val, 0))
         ELSE IF cmd = "write"
         THEN LET x == Extract(r, junk) IN
              IF ~x.ok
              THEN \* >> val does nothing on a failed stream: val is never set
                   Append(acc, Op(WRITE, x.val, junk))
              ELSE LET y == Extract(x.rest, junk) IN
                   IF y.ok
                   THEN LoadLoop(y.rest, Append(acc, Op(WRITE, x.val, y.val)),
                                 withElse, junk)
                   ELSE Append(acc, Op(WRITE, x.val, y.val))
         ELSE IF cmd = "string"
         THEN LoadLoop(r, Append(acc, Op(STRING_, 0, 0)), withElse, junk)
         ELSE IF withElse
         THEN LoadLoop(AfterNewline(r), acc, withElse, junk)
         ELSE LoadLoop(r, acc, withElse, junk)

Loaders == {"load_ops_from_file", "load_ops"}

LoadOps(which, f, junk) ==
    LoadLoop(Flatten(f), <<>>, which = "load_ops_from_file", junk)

(* a loader is about to read a file that could be opened *)
LoadInit ==
    /\ Launch(NumFields, {[w \in Workers |-> <<>>]})
    /\ file \in Files
    /\ loader \in Loaders
    /\ loadPc = "open"
    /\ loaded = <<>>

(* the whole call of the load function *)
Load ==
    /\ loadPc = "open"
    /\ \E junk \in Indeterminate : loaded' = LoadOps(loader, file, junk)
    /\ loadPc' = "loaded"
    /\ UNCHANGED <<final, file, loader, storeVars, ops, pos, pc, acquired, i_, oss,
                   readRet, strRet, histVars>>

LoadNext == Load

LoadSpec == LoadInit /\ [][LoadNext]_vars

Init ==
    Construct(NumFields,
              Workloads(OpSet(Indices(NumFields), Indices(NumFields), 1..MaxVal),
                        NumWorkers, MaxTotalOps, MaxOps))

(* the same store under workloads whose writes all carry one value: which   *)
(* call can run next never depends on the values written                    *)
FairInit ==
    Construct(NumFields,
              Workloads(OpSet(0..NumFields, 0..NumFields, {1}),
                        NumWorkers, MaxTotalOps, MaxOps))

(* workloads for runs in which a thread may go through its stream again    *)
(* and again: traffic that does not stop                                    *)
TrafficInit ==
    Construct(NumFields,
              Workloads(OpSet(0..NumFields, 0..NumFields, {1}),
                        NumWorkers, TrafficOps, MaxOps))

(* the end-to-end run: a store of 3 fields and the streams                  *)
(* "write 0 5" "read 0" / "write 1 9" / "string"; further threads, if any,  *)
(* get an empty stream                                                      *)
E2EStreams ==
    [w \in Workers |->
        CASE w = 1 -> <<Op(WRITE, 0, 5), Op(READ, 0, 0)>>
          [] w = 2 -> <<Op(WRITE, 1, 9)>>
          [] w = 3 -> <<Op(STRING_, 0, 0)>>
          [] OTHER -> <<>>]

E2EInit == Construct(3, {E2EStreams})

(* `[` v0 `, ` v1 ... `]`: the text to_string builds from the values read *)
RECURSIVE Join(_)
Join(vs) ==
    IF vs = <<>> THEN ""
    ELSE IF Len(vs) = 1 THEN ToString(vs[1])
    ELSE Join(SubSeq(vs, 1, Len(vs) - 1)) \o ", " \o ToString(vs[Len(vs)])

Format(vs) == "[" \o Join(vs) \o "]"

(* variant: the loop steps over the operation that follows each call *)
ReturnToLoop_Skips(w) ==
    /\ pc' = [pc EXCEPT ![w] = "loop"]
    /\ pos' = [pos EXCEPT ![w] = @ + 2]
    /\ returns' = [returns EXCEPT ![w] = @ + 1]

(* a store call returns to the worker loop, which moves to the next op *)
ReturnToLoop(w) ==
    /\ pc' = [pc EXCEPT ![w] = "loop"]
    /\ pos' = [pos EXCEPT ![w] = @ + 1]
    /\ returns' = [returns EXCEPT ![w] = @ + 1]

(* ---- execute_ops: for (const auto& op : ops) switch (op.type) ---- *)
Dispatch(w) ==
    /\ pc[w] = "loop"
    /\ pos[w] <= Len(ops[w])
    /\ LET op == CurOp(w) IN
        /\ pc' = [pc EXCEPT ![w] = CASE op.type = READ -> "read"
                                     [] op.type = WRITE -> "write"
                                     [] op.type = STRING_ -> "str_lock"]
        /\ calls' = [calls EXCEPT ![w] =
                        Append(@, CASE op.type = READ -> <<"read", op.idx, 0>>
                                    [] op.type = WRITE -> <<"write", op.idx, op.value>>
                                    [] op.type = STRING_ -> <<"to_string", 0, 0>>)]
        /\ seen' = [seen EXCEPT ![w] = IF op.type = STRING_ THEN {vals} ELSE {}]
    \* the previous call's result was a discarded temporary; to_string starts
    \* with an empty vector of locks and an empty stream
    /\ readRet' = [readRet EXCEPT ![w] = 0]
    /\ strRet' = [strRet EXCEPT ![w] = ""]
    /\ acquired' = [acquired EXCEPT ![w] = <<>>]
    /\ oss' = [oss EXCEPT ![w] = ""]
    /\ snapVals' = [snapVals EXCEPT ![w] = <<>>]
    /\ readAcq' = [readAcq EXCEPT ![w] = 0]
    /\ UNCHANGED <<driverVars, storeVars, ops, pos, i_, returns, committed>>

(* the range-for is exhausted: execute_ops returns *)
Finish(w) ==
    /\ pc[w] = "loop"
    /\ pos[w] > Len(ops[w])
    /\ pc' = [pc EXCEPT ![w] = "done"]
    /\ readRet' = [readRet EXCEPT ![w] = 0]
    /\ strRet' = [strRet EXCEPT ![w] = ""]
    /\ snapVals' = [snapVals EXCEPT ![w] = <<>>]
    /\ seen' = [seen EXCEPT ![w] = {}]
    /\ readAcq' = [readAcq EXCEPT ![w] = 0]
    /\ UNCHANGED <<driverVars, storeVars, ops, pos, acquired, i_, oss, calls, returns, committed>>

(* ---- MultiField::read ---- *)
(* if (idx >= vals.size()) return 0; *)
ReadOutOfRange(w) ==
    /\ pc[w] = "read"
    /\ CurOp(w).idx >= m
    /\ readRet' = [readRet EXCEPT ![w] = 0]
    /\ ReturnToLoop(w)
    /\ UNCHANGED <<driverVars, storeVars, ops, acquired, i_, oss, strRet,
                   calls, committed, readAcq, seen, snapVals>>

(* variant: read takes the guard exclusively, as write does *)
ReadLock_Exclusive(w) ==
    /\ pc[w] = "read"
    /\ CurOp(w).idx < m
    /\ CanLockExclusive(CurOp(w).idx)
    /\ locks' = LockShared(CurOp(w).idx, w)
    /\ pc' = [pc EXCEPT ![w] = "read_locked"]
    /\ readAcq' = [readAcq EXCEPT ![w] = committed[CurOp(w).idx]]
    /\ UNCHANGED <<driverVars, m, policy, vals, ops, pos, acquired, i_, oss, readRet, strRet,
                   calls, returns, committed, seen, snapVals>>

(* variant: read takes the field without waiting for its exclusive owner *)
ReadLock_NoWait(w) ==
    /\ pc[w] = "read"
    /\ CurOp(w).idx < m
    /\ locks' = LockShared(CurOp(w).idx, w)
    /\ pc' = [pc EXCEPT ![w] = "read_locked"]
    /\ readAcq' = [readAcq EXCEPT ![w] = committed[CurOp(w).idx]]
    /\ UNCHANGED <<driverVars, m, policy, vals, ops, pos, acquired, i_, oss, readRet, strRet,
                   calls, returns, committed, seen, snapVals>>

(* std::shared_lock<std::shared_mutex> lk(locks[idx]); *)
ReadLock(w) ==
    /\ pc[w] = "read"
    /\ CurOp(w).idx < m
    /\ CanLockShared(CurOp(w).idx)
    /\ locks' = LockShared(CurOp(w).idx, w)
    /\ pc' = [pc EXCEPT ![w] = "read_locked"]
    /\ readAcq' = [readAcq EXCEPT ![w] = committed[CurOp(w).idx]]
    /\ UNCHANGED <<driverVars, m, policy, vals, ops, pos, acquired, i_, oss, readRet, strRet,
                   calls, returns, committed, seen, snapVals>>

(* variant: a read hands the value out and puts the field back to zero *)
ReadReturn_Consumes(w) ==
    /\ pc[w] = "read_locked"
    /\ readRet' = [readRet EXCEPT ![w] = vals[CurOp(w).idx]]
    /\ vals' = [vals EXCEPT ![CurOp(w).idx] = 0]
    /\ locks' = UnlockShared(CurOp(w).idx, w)
    /\ ReturnToLoop(w)
    /\ UNCHANGED <<driverVars, m, policy, ops, acquired, i_, oss, strRet,
                   calls, committed, readAcq, seen, snapVals>>

(* variant: read returns with its shared lock still held *)
ReadReturn_KeepsLock(w) ==
    /\ pc[w] = "read_locked"
    /\ readRet' = [readRet EXCEPT ![w] = vals[CurOp(w).idx]]
    /\ ReturnToLoop(w)
    /\ UNCHANGED <<driverVars, storeVars, ops, acquired, i_, oss, strRet,
                   calls, committed, readAcq, seen, snapVals>>

(* return vals[idx]; then lk is destroyed *)
ReadReturn(w) ==
    /\ pc[w] = "read_locked"
    /\ readRet' = [readRet EXCEPT ![w] = vals[CurOp(w).idx]]
    /\ locks' = UnlockShared(CurOp(w).idx, w)
    /\ ReturnToLoop(w)
    /\ UNCHANGED <<driverVars, m, policy, vals, ops, acquired, i_, oss, strRet,
                   calls, committed, readAcq, seen, snapVals>>

(* ---- MultiField::write ---- *)
(* variant: an out-of-range index is clamped to the last field *)
WriteOutOfRange_Clamps(w) ==
    /\ pc[w] = "write"
    /\ CurOp(w).idx >= m
    /\ vals' = [vals EXCEPT ![m - 1] = CurOp(w).value]
    /\ ReturnToLoop(w)
    /\ UNCHANGED <<driverVars, m, policy, locks, ops, acquired, i_, oss, readRet, strRet,
                   calls, committed, readAcq, seen, snapVals>>

(* if (idx >= vals.size()) return; *)
WriteOutOfRange(w) ==
    /\ pc[w] = "write"
    /\ CurOp(w).idx >= m
    /\ ReturnToLoop(w)
    /\ UNCHANGED <<driverVars, storeVars, ops, acquired, i_, oss, readRet, strRet,
                   calls, committed, readAcq, seen, snapVals>>

(* variant: one lock for the whole store, write waits until every field is free *)
WriteLock_Global(w) ==
    /\ pc[w] = "write"
    /\ CurOp(w).idx < m
    /\ \A i \in Fields : CanLockExclusive(i)
    /\ locks' = LockExclusive(CurOp(w).idx, w)
    /\ pc' = [pc EXCEPT ![w] = "write_locked"]
    /\ UNCHANGED <<driverVars, m, policy, vals, ops, pos, acquired, i_, oss, readRet, strRet, histVars>>

(* variant: write waits for the exclusive owner only, not for shared owners *)
WriteLock_IgnoresReaders(w) ==
    /\ pc[w] = "write"
    /\ CurOp(w).idx < m
    /\ locks[CurOp(w).idx].excl = NoOwner
    /\ locks' = LockExclusive(CurOp(w).idx, w)
    /\ pc' = [pc EXCEPT ![w] = "write_locked"]
    /\ UNCHANGED <<driverVars, m, policy, vals, ops, pos, acquired, i_, oss, readRet, strRet, histVars>>

(* std::unique_lock<std::shared_mutex> lk(locks[idx]); *)
WriteLock(w) ==
    /\ pc[w] = "write"
    /\ CurOp(w).idx < m
    /\ CanLockExclusive(CurOp(w).idx)
    /\ locks' = LockExclusive(CurOp(w).idx, w)
    /\ pc' = [pc EXCEPT ![w] = "write_locked"]
    /\ UNCHANGED <<driverVars, m, policy, vals, ops, pos, acquired, i_, oss, readRet, strRet, histVars>>

(* variant: the value lands in the field before the one named *)
WriteStore_WrongIndex(w) ==
    /\ pc[w] = "write_locked"
    /\ vals' = [vals EXCEPT ![(CurOp(w).idx + m - 1) % m] = CurOp(w).value]
    /\ seen' = Observe(vals')
    /\ pc' = [pc EXCEPT ![w] = "write_stored"]
    /\ UNCHANGED <<driverVars, m, policy, locks, ops, pos, acquired, i_, oss, readRet, strRet,
                   calls, returns, committed, readAcq, snapVals>>

(* variant: the store runs over into the next field *)
WriteStore_Spills(w) ==
    /\ pc[w] = "write_locked"
    /\ vals' = [vals EXCEPT ![CurOp(w).idx] = CurOp(w).value,
                            ![(CurOp(w).idx + 1) % m] = CurOp(w).value]
    /\ seen' = Observe(vals')
    /\ pc' = [pc EXCEPT ![w] = "write_stored"]
    /\ UNCHANGED <<driverVars, m, policy, locks, ops, pos, acquired, i_, oss, readRet, strRet,
                   calls, returns, committed, readAcq, snapVals>>

(* variant: a field that was written once keeps that value *)
WriteStore_FirstWins(w) ==
    /\ pc[w] = "write_locked"
    /\ vals' = IF vals[CurOp(w).idx] = InitValue
               THEN [vals EXCEPT ![CurOp(w).idx] = CurOp(w).value]
               ELSE vals
    /\ seen' = Observe(vals')
    /\ pc' = [pc EXCEPT ![w] = "write_stored"]
    /\ UNCHANGED <<driverVars, m, policy, locks, ops, pos, acquired, i_, oss, readRet, strRet,
                   calls, returns, committed, readAcq, snapVals>>

(* vals[idx] = value; *)
WriteStore(w) ==
    /\ pc[w] = "write_locked"
    /\ vals' = [vals EXCEPT ![CurOp(w).idx] = CurOp(w).value]
    /\ seen' = Observe(vals')
    /\ pc' = [pc EXCEPT ![w] = "write_stored"]
    /\ UNCHANGED <<driverVars, m, policy, locks, ops, pos, acquired, i_, oss, readRet, strRet,
                   calls, returns, committed, readAcq, snapVals>>

(* lk is destroyed and write returns *)
WriteReturn(w) ==
    /\ pc[w] = "write_stored"
    /\ locks' = UnlockExclusive(CurOp(w).idx)
    /\ committed' = [committed EXCEPT ![CurOp(w).idx] = CurOp(w).value]
    /\ ReturnToLoop(w)
    /\ UNCHANGED <<driverVars, m, policy, vals, ops, acquired, i_, oss, readRet, strRet,
                   calls, readAcq, seen, snapVals>>

(* ---- MultiField::to_string ---- *)
(* variant: each shared_lock is a temporary, released as soon as it is got *)
StrLock_Temporary(w) ==
    /\ pc[w] = "str_lock"
    /\ LET k == Len(acquired[w]) IN
        /\ k < m
        /\ CanLockShared(k)
        /\ acquired' = [acquired EXCEPT ![w] = Append(@, k)]
        /\ IF k + 1 = m
           THEN /\ pc' = [pc EXCEPT ![w] = "str_read"]
                /\ oss' = [oss EXCEPT ![w] = "["]
                /\ i_' = [i_ EXCEPT ![w] = 0]
           ELSE UNCHANGED <<pc, oss, i_>>
    /\ UNCHANGED <<driverVars, storeVars, ops, pos, readRet, strRet, histVars>>

(* variant: to_string collects the guards without waiting for a writer *)
StrLock_NoWait(w) ==
    /\ pc[w] = "str_lock"
    /\ LET k == Len(acquired[w]) IN
        /\ k < m
        /\ locks' = LockShared(k, w)
        /\ acquired' = [acquired EXCEPT ![w] = Append(@, k)]
        /\ IF k + 1 = m
           THEN /\ pc' = [pc EXCEPT ![w] = "str_read"]
                /\ oss' = [oss EXCEPT ![w] = "["]
                /\ i_' = [i_ EXCEPT ![w] = 0]
           ELSE UNCHANGED <<pc, oss, i_>>
    /\ UNCHANGED <<driverVars, m, policy, vals, ops, pos, readRet, strRet, histVars>>

(* variant: to_string walks the guards from the last to the first *)
StrLock_Descending(w) ==
    /\ pc[w] = "str_lock"
    /\ LET k == Len(acquired[w]) IN
        /\ k < m
        /\ CanLockShared(m - 1 - k)
        /\ locks' = LockShared(m - 1 - k, w)
        /\ acquired' = [acquired EXCEPT ![w] = Append(@, m - 1 - k)]
        /\ IF k + 1 = m
           THEN /\ pc' = [pc EXCEPT ![w] = "str_read"]
                /\ oss' = [oss EXCEPT ![w] = "["]
                /\ i_' = [i_ EXCEPT ![w] = 0]
           ELSE UNCHANGED <<pc, oss, i_>>
    /\ UNCHANGED <<driverVars, m, policy, vals, ops, pos, readRet, strRet, histVars>>

(* for (auto& lk : locks) acquired.emplace_back(lk);  then  oss << "[" *)
StrLock(w) ==
    /\ pc[w] = "str_lock"
    /\ LET k == Len(acquired[w]) IN
        /\ k < m
        /\ CanLockShared(k)
        /\ locks' = LockShared(k, w)
        /\ acquired' = [acquired EXCEPT ![w] = Append(@, k)]
        /\ IF k + 1 = m
           THEN /\ pc' = [pc EXCEPT ![w] = "str_read"]
                /\ oss' = [oss EXCEPT ![w] = "["]
                /\ i_' = [i_ EXCEPT ![w] = 0]
           ELSE UNCHANGED <<pc, oss, i_>>
    /\ UNCHANGED <<driverVars, m, policy, vals, ops, pos, readRet, strRet, histVars>>

(* if (i) oss << ", ";  oss << vals[i]; *)
StrRead(w) ==
    /\ pc[w] = "str_read"
    /\ i_[w] < m
    /\ oss' = [oss EXCEPT ![w] =
                  @ \o (IF i_[w] > 0 THEN ", " ELSE "") \o ToString(vals[i_[w]])]
    /\ snapVals' = [snapVals EXCEPT ![w] = Append(@, vals[i_[w]])]
    /\ i_' = [i_ EXCEPT ![w] = @ + 1]
    /\ UNCHANGED <<driverVars, storeVars, ops, pos, pc, acquired, readRet, strRet,
                   calls, returns, committed, readAcq, seen>>

(* oss << "]";  return oss.str();  the result exists before any local dies *)
StrFormat(w) ==
    /\ pc[w] = "str_read"
    /\ i_[w] >= m
    /\ oss' = [oss EXCEPT ![w] = @ \o "]"]
    /\ strRet' = [strRet EXCEPT ![w] = oss'[w]]
    /\ pc' = [pc EXCEPT ![w] = "str_unlock"]
    /\ UNCHANGED <<driverVars, storeVars, ops, pos, acquired, i_, readRet, histVars>>

(* variant: to_string returns with its shared locks never released *)
StrUnlock_Leaks(w) ==
    /\ pc[w] = "str_unlock"
    /\ acquired' = [acquired EXCEPT ![w] = <<>>]
    /\ ReturnToLoop(w)
    /\ UNCHANGED <<driverVars, storeVars, ops, i_, oss, readRet, strRet,
                   calls, committed, readAcq, seen, snapVals>>

(* ~vector<shared_lock>: the elements are destroyed one by one, in an order *)
(* the standard leaves open; with the last one to_string has returned       *)
StrUnlock(w) ==
    /\ pc[w] = "str_unlock"
    /\ \E j \in 1..Len(acquired[w]) :
        LET rest == SubSeq(acquired[w], 1, j - 1)
                        \o SubSeq(acquired[w], j + 1, Len(acquired[w])) IN
        /\ locks' = UnlockShared(acquired[w][j], w)
        /\ acquired' = [acquired EXCEPT ![w] = rest]
        /\ IF rest = <<>>
           THEN ReturnToLoop(w)
           ELSE UNCHANGED <<pc, pos, returns>>
    /\ UNCHANGED <<driverVars, m, policy, vals, ops, i_, oss, readRet, strRet,
                   calls, committed, readAcq, seen, snapVals>>

AllDone == \A w \in Workers : pc[w] = "done"

(* the contents of vals as the sequence to_string streams *)
ValsSeq == [k \in 1..m |-> vals[k - 1]]

(* ---- run_test_case: join every thread, then std::string s = mf ---- *)
(* no other thread is left, so the whole to_string call is one step    *)
FinalSnapshot ==
    /\ AllDone
    /\ final = ""
    /\ \A i \in Fields : CanLockShared(i)
    /\ final' = Format(ValsSeq)
    /\ UNCHANGED <<loadVars, storeVars, ops, pos, pc, acquired, i_, oss,
                   readRet, strRet, histVars>>

Step(w) ==
    \/ Dispatch(w)
    \/ Finish(w)
    \/ ReadOutOfRange(w)
    \/ ReadLock(w)
    \/ ReadReturn(w)
    \/ WriteOutOfRange(w)
    \/ WriteLock(w)
    \/ WriteStore(w)
    \/ WriteReturn(w)
    \/ StrLock(w)
    \/ StrRead(w)
    \/ StrFormat(w)
    \/ StrUnlock(w)

Next ==
    \/ \E w \in Workers : Step(w)
    \/ FinalSnapshot

Spec == Init /\ [][Next]_vars

(* one thread per stream; a runnable thread is eventually scheduled *)
FairSpec == FairInit /\ [][Next]_vars /\ \A w \in Workers : WF_vars(Step(w))

(* a stream with no end, as one that starts over: the loop goes back to   *)
(* the first operation instead of leaving                                 *)
Restart(w) ==
    /\ pc[w] = "loop"
    /\ pos[w] > Len(ops[w])
    /\ ops[w] # <<>>
    /\ pos' = [pos EXCEPT ![w] = 1]
    /\ calls' = [calls EXCEPT ![w] = <<>>]
    /\ returns' = [returns EXCEPT ![w] = 0]
    /\ readRet' = [readRet EXCEPT ![w] = 0]
    /\ strRet' = [strRet EXCEPT ![w] = ""]
    /\ snapVals' = [snapVals EXCEPT ![w] = <<>>]
    /\ seen' = [seen EXCEPT ![w] = {}]
    /\ readAcq' = [readAcq EXCEPT ![w] = 0]
    /\ UNCHANGED <<driverVars, storeVars, ops, pc, acquired, i_, oss, committed>>

TrafficStep(w) == Step(w) \/ Restart(w)

TrafficNext ==
    \/ \E w \in Workers : TrafficStep(w)
    \/ FinalSnapshot

(* every thread that can run is scheduled; the mutexes promise no more *)
TrafficSpec ==
    /\ TrafficInit
    /\ [][TrafficNext]_vars
    /\ \A w \in Workers : WF_vars(TrafficStep(w))

(* the end-to-end run names in-range indices only: its threads never take   *)
(* the idx >= vals.size() branches                                          *)
E2EStep(w) ==
    \/ Dispatch(w)
    \/ Finish(w)
    \/ ReadLock(w)
    \/ ReadReturn(w)
    \/ WriteLock(w)
    \/ WriteStore(w)
    \/ WriteReturn(w)
    \/ StrLock(w)
    \/ StrRead(w)
    \/ StrFormat(w)
    \/ StrUnlock(w)

E2ENext ==
    \/ \E w \in Workers : E2EStep(w)
    \/ FinalSnapshot

(* the main thread, too, is scheduled once it can run *)
E2ESpec ==
    /\ E2EInit
    /\ [][E2ENext]_vars
    /\ \A w \in Workers : WF_vars(E2EStep(w))
    /\ WF_vars(FinalSnapshot)

(* ======================================================================= *)
(* Properties                                                              *)
(* ======================================================================= *)

InRange(w) == pos[w] \in 1..Len(ops[w])

(* the calls that hold guard i, read off the control points *)
WriteHolders(i) ==
    {w \in Workers : pc[w] \in {"write_locked", "write_stored"} /\ CurOp(w).idx = i}
ReadHolders(i) ==
    {w \in Workers : pc[w] = "read_locked" /\ CurOp(w).idx = i}
SnapHolders(i) ==
    {w \in Workers : /\ pc[w] \in {"str_lock", "str_read", "str_unlock"}
                     /\ \E j \in 1..Len(acquired[w]) : acquired[w][j] = i}

(* the last call of w returned and the loop has not moved on *)
JustReturned(w, t) ==
    /\ pc[w] = "loop"
    /\ pos[w] > 1
    /\ ops[w][pos[w] - 1].type = t

LastOp(w) == ops[w][pos[w] - 1]

(* C1: per-field mutual exclusion.  While a write call holds guard i, it is *)
(* the only write call holding it, and no read call and no to_string call   *)
(* holds guard i; the mutex's own record agrees with the calls.             *)
C1_MutualExclusion ==
    \A i \in Fields :
        /\ WriteHolders(i) # {} =>
              /\ Cardinality(WriteHolders(i)) = 1
              /\ ReadHolders(i) = {}
              /\ SnapHolders(i) = {}
        /\ WriteHolders(i) = {w \in Workers : locks[i].excl = w}
        /\ ReadHolders(i) \cup SnapHolders(i) = locks[i].shared

(* a write holds guard i with its value stored while another worker's read  *)
(* or write of the same field has to wait                                   *)
C1_Witness ==
    \E w, u \in Workers :
        /\ pc[w] = "write_stored"
        /\ pc[u] \in {"read", "write"}
        /\ CurOp(u).idx = CurOp(w).idx

(* C3: snapshot atomicity.  The values a to_string call has read, and the   *)
(* text it returns, are the whole contents of vals at one instant of the    *)
(* call.                                                                    *)
C3_SnapshotAtomic ==
    \A w \in Workers :
        (pc[w] = "str_unlock" \/ JustReturned(w, STRING_)) =>
            /\ Len(snapVals[w]) = m
            /\ \E s \in seen[w] : \A i \in Fields : snapVals[w][i + 1] = s[i]
            /\ strRet[w] = Format(snapVals[w])

(* a snapshot has returned that ran while another worker wrote; it shows    *)
(* the second field as written                                              *)
C3_Witness ==
    \E w \in Workers :
        /\ JustReturned(w, STRING_)
        /\ Cardinality(seen[w]) >= 2
        /\ snapVals[w][m] # InitValue

(* values of the writes to field i whose call has returned *)
CompletedWrites(i) ==
    UNION {{ops[u][k].value : k \in {j \in 1..Len(ops[u]) :
                                        /\ j < pos[u]
                                        /\ ops[u][j].type = WRITE
                                        /\ ops[u][j].idx = i}} : u \in Workers}

(* C4: snapshot values are not torn.  Every value a to_string call has read *)
(* for field i is the initial value or the value of a write to i that had   *)
(* returned, and field i held that value at some instant of the call.       *)
C4_SnapshotNotTorn ==
    \A w \in Workers :
        pc[w] \in {"str_read", "str_unlock"} \/ JustReturned(w, STRING_) =>
            \A i \in Fields :
                i + 1 <= Len(snapVals[w]) =>
                    /\ snapVals[w][i + 1] \in {InitValue} \cup CompletedWrites(i)
                    /\ \E s \in seen[w] : s[i] = snapVals[w][i + 1]

(* a snapshot read a written value while another write call was in progress *)
C4_Witness ==
    \E w, u \in Workers :
        /\ pc[w] = "str_unlock"
        /\ \E i \in Fields : snapVals[w][i + 1] # InitValue
        /\ pc[u] \in {"write", "write_locked", "write_stored"}

(* every value some stream writes to field i *)
WrittenValues(i) ==
    UNION {{ops[u][k].value : k \in {j \in 1..Len(ops[u]) :
                                        /\ ops[u][j].type = WRITE
                                        /\ ops[u][j].idx = i}} : u \in Workers}

(* C5: single-field linearizability.  An in-range read(i) returns the value *)
(* of the latest write to i that released guard i before the read acquired  *)
(* it (the initial value if there is none), and only values written to i.   *)
C5_ReadLinearizable ==
    \A w \in Workers :
        /\ pc[w] = "read_locked" =>
              /\ readAcq[w] = committed[CurOp(w).idx]
              /\ vals[CurOp(w).idx] = readAcq[w]
        /\ (JustReturned(w, READ) /\ LastOp(w).idx < m) =>
              /\ readRet[w] = readAcq[w]
              /\ readRet[w] \in {InitValue} \cup WrittenValues(LastOp(w).idx)

(* a read returned a written value while a later write to the same field    *)
(* was already in progress                                                  *)
C5_Witness ==
    \E w, u \in Workers :
        /\ JustReturned(w, READ)
        /\ LastOp(w).idx < m
        /\ readRet[w] # InitValue
        /\ pc[u] = "write_stored"
        /\ CurOp(u).idx = LastOp(w).idx
        /\ CurOp(u).value # readRet[w]

(* C2: deadlock freedom.  With snapshots, reads and writes running together *)
(* over finite streams, some worker can always take a step until every      *)
(* worker is done, and under fair scheduling every worker finishes.         *)
C2_DeadlockFree == [](AllDone \/ ENABLED Next) /\ <>AllDone

(* a snapshot holds guard 0 and waits for guard 1, which a write holds,     *)
(* while a third worker waits to write field 0                              *)
C2_Witness ==
    \E w, u, x \in Workers :
        /\ pc[w] = "str_lock" /\ Len(acquired[w]) = 1
        /\ pc[u] \in {"write_locked", "write_stored"} /\ CurOp(u).idx = 1
        /\ pc[x] = "write" /\ CurOp(x).idx = 0

(* worker w is inside a call that holds guard j or is about to ask for it *)
Concerns(w, j) ==
    \/ w \in WriteHolders(j) \cup ReadHolders(j) \cup SnapHolders(j)
    \/ pc[w] \in {"read", "write"} /\ CurOp(w).idx = j
    \/ pc[w] = "str_lock" /\ Len(acquired[w]) = j

C7_ReadPassesUnlessWriteHolds ==
    \A u \in Workers :
        (pc[u] = "read" /\ CurOp(u).idx < m /\ WriteHolders(CurOp(u).idx) = {}) =>
            ENABLED ReadLock(u)

(* C7, amended: a read(i) can acquire guard i whenever no write holds guard *)
(* i or waits for it, whoever else holds the guard in shared mode; once it  *)
(* holds the guard it returns without waiting.                              *)
C7_ReadersShare ==
    \A u \in Workers :
        /\ (/\ pc[u] = "read"
            /\ CurOp(u).idx < m
            /\ WriteHolders(CurOp(u).idx) = {}
            /\ ~\E w \in Workers : pc[w] = "write" /\ CurOp(w).idx = CurOp(u).idx) =>
              ENABLED ReadLock(u)
        /\ pc[u] = "read_locked" => ENABLED ReadReturn(u)

(* a read is free to take a guard that a read and a snapshot both hold      *)
C7_Witness ==
    \E u, r, t \in Workers :
        /\ pc[u] = "read" /\ CurOp(u).idx < m
        /\ r \in ReadHolders(CurOp(u).idx)
        /\ t \in SnapHolders(CurOp(u).idx)
        /\ ENABLED ReadLock(u)

(* worker w holds no guard, in either mode *)
HoldsNothing(w) ==
    \A i \in Fields : locks[i].excl # w /\ w \notin locks[i].shared

(* C8: out-of-range no-op.  A read or write with idx >= m can always take   *)
(* its step, holds no guard, and its step is the return: the read returns   *)
(* 0, and vals, locks and the field count are as they were.                 *)
C8_OutOfRangeNoOp ==
    /\ [](\A w \in Workers :
            (pc[w] \in {"read", "write"} /\ CurOp(w).idx >= m) =>
                /\ HoldsNothing(w)
                /\ pc[w] = "read" => ENABLED ReadOutOfRange(w)
                /\ pc[w] = "write" => ENABLED WriteOutOfRange(w))
    /\ [][\A w \in Workers :
            (pc[w] \in {"read", "write"} /\ CurOp(w).idx >= m /\ pc'[w] # pc[w]) =>
                /\ pc'[w] = "loop"
                /\ returns'[w] = returns[w] + 1
                /\ pc[w] = "read" => readRet'[w] = 0
                /\ vals' = vals
                /\ locks' = locks
                /\ m' = m]_vars

(* read(m + 5) and write(m, x) have returned on a store that holds a        *)
(* written value                                                            *)
C8_Witness ==
    \E w, u \in Workers :
        /\ JustReturned(w, READ) /\ LastOp(w).idx = m + 5 /\ readRet[w] = 0
        /\ JustReturned(u, WRITE) /\ LastOp(u).idx = m
        /\ \E i \in Fields : vals[i] # InitValue

(* the store call that execute_ops makes for an operation *)
CallOf(op) ==
    IF op.type = READ THEN <<"read", op.idx, 0>>
    ELSE IF op.type = WRITE THEN <<"write", op.idx, op.value>>
    ELSE <<"to_string", 0, 0>>

(* C9: sequential exactly-once dispatch.  The calls a worker has made are   *)
(* the calls of a prefix of its stream, in order; at most one of them has   *)
(* not returned, and none while the worker is between operations; a worker  *)
(* is done only after one returned call per operation.                      *)
C9_SequentialDispatch ==
    \A w \in Workers :
        /\ Len(calls[w]) <= Len(ops[w])
        /\ \A k \in 1..Len(calls[w]) : calls[w][k] = CallOf(ops[w][k])
        /\ returns[w] <= Len(calls[w])
        /\ Len(calls[w]) <= returns[w] + 1
        /\ pc[w] \in {"loop", "done"} => returns[w] = Len(calls[w])
        /\ pc[w] \notin {"loop", "done"} =>
              /\ Len(calls[w]) = returns[w] + 1
              /\ pos[w] = Len(calls[w])
        /\ pc[w] = "done" => returns[w] = Len(ops[w])
        /\ ops[w] = <<>> => calls[w] = <<>> /\ HoldsNothing(w)

(* a worker is done with a two-operation stream whose second call is the    *)
(* snapshot, and a worker with an empty stream is done                      *)
C9_Witness ==
    \E w, u \in Workers :
        /\ pc[w] = "done" /\ Len(ops[w]) = 2 /\ ops[w][2].type = STRING_
        /\ ops[w][1].type # STRING_
        /\ pc[u] = "done" /\ ops[u] = <<>>

(* no stream but that of w writes field i *)
OnlyWriter(w, i) ==
    \A u \in Workers \ {w} : \A k \in 1..Len(ops[u]) :
        ~(ops[u][k].type = WRITE /\ ops[u][k].idx = i)

(* C10: stream order preservation.  When a stream writes v to field i and   *)
(* later reads i, with no write to i between them in the stream and no      *)
(* write to i in any other stream, the read returns v.                      *)
C10_ReadYourWrites ==
    \A w \in Workers :
        (JustReturned(w, READ) /\ LastOp(w).idx < m /\ OnlyWriter(w, LastOp(w).idx)) =>
            \A k \in 1..(pos[w] - 2) :
                (/\ ops[w][k].type = WRITE
                 /\ ops[w][k].idx = LastOp(w).idx
                 /\ \A j \in (k + 1)..(pos[w] - 2) :
                        ~(ops[w][j].type = WRITE /\ ops[w][j].idx = LastOp(w).idx)) =>
                    readRet[w] = ops[w][k].value

(* a stream's read of the last field returned what the stream wrote there   *)
(* while another worker was writing a different field                       *)
C10_Witness ==
    \E w, u \in Workers :
        /\ JustReturned(w, READ) /\ pos[w] = 3
        /\ ops[w][1].type = WRITE /\ ops[w][1].idx = m - 1
        /\ LastOp(w).idx = m - 1
        /\ readRet[w] = ops[w][1].value
        /\ pc[u] = "write_stored" /\ CurOp(u).idx # m - 1

(* C11: the end-to-end scenario.  Every run joins all three workers and     *)
(* takes the final snapshot, which shows 5, 9, 0; the snapshot the third    *)
(* stream takes mid-run shows 0 or 5, then 0 or 9, then 0.                  *)
C11_EndToEnd ==
    /\ [](\A w \in Workers :
            ~ENABLED ReadOutOfRange(w) /\ ~ENABLED WriteOutOfRange(w))
    /\ <>(AllDone /\ final # "")
    /\ [](final # "" => /\ AllDone
                        /\ vals[0] = 5 /\ vals[1] = 9 /\ vals[2] = 0
                        /\ final = "[5, 9, 0]")
    /\ [](pc[3] = "str_unlock" =>
            /\ Len(snapVals[3]) = 3
            /\ snapVals[3][1] \in {0, 5}
            /\ snapVals[3][2] \in {0, 9}
            /\ snapVals[3][3] = 0
            /\ strRet[3] = Format(snapVals[3]))

(* the final snapshot has been taken after the first stream's read          *)
(* returned 5                                                               *)
C11_Witness ==
    /\ final = "[5, 9, 0]"
    /\ returns = [w \in Workers |-> Len(E2EStreams[w])]

InSnapshot(w) == pc[w] \in {"str_lock", "str_read", "str_unlock"}

(* C12: a snapshot is not starved by per-field traffic.  Every to_string    *)
(* call that has started returns, also when the other threads never stop    *)
(* reading and writing single fields.                                       *)
C12_SnapshotNotStarved ==
    \A w \in Workers : InSnapshot(w) ~> ~InSnapshot(w)

(* the fields as the latest completed writes left them, in index order *)
CommittedSeq == [k \in 1..m |-> committed[k - 1]]

(* this step is the return of a write call of field i *)
WriteCompletes(i) ==
    \E w \in Workers :
        /\ pc[w] = "write_stored" /\ pc'[w] = "loop"
        /\ CurOp(w).idx = i

(* C13: idempotent, side-effect-free reads.  No step of a read or of a      *)
(* to_string call changes a field.  What a read(i) returns is the value the *)
(* latest completed write left in field i, and what to_string returns is    *)
(* the text of those values; they change only when a write call of that     *)
(* field returns.  So calls with no write completing in between return the  *)
(* same.                                                                    *)
C13_IdempotentReads ==
    [][/\ \A w \in Workers :
            /\ (pc[w] \in {"read", "read_locked"} \cup {"str_lock", "str_read", "str_unlock"}
                    /\ pc'[w] # pc[w]) => vals' = vals
            /\ (pc[w] = "read_locked" /\ pc'[w] = "loop") =>
                    readRet'[w] = committed[CurOp(w).idx]
            /\ (pc[w] = "str_read" /\ pc'[w] = "str_unlock") =>
                    strRet'[w] = Format(CommittedSeq)
       /\ \A i \in Fields :
            committed'[i] # committed[i] => WriteCompletes(i)]_vars

(* two reads of one field have returned the same written value, one after  *)
(* the other, with no write in progress                                    *)
C13_Witness ==
    \E w, u \in Workers :
        /\ w # u
        /\ JustReturned(w, READ) /\ JustReturned(u, READ)
        /\ LastOp(w).idx < m /\ LastOp(u).idx = LastOp(w).idx
        /\ readRet[w] # InitValue
        /\ readRet[u] = readRet[w]

(* ---- the lines of a workload file ---- *)
Commands == {"read", "write", "string"}

WellFormed(l) ==
    \/ Len(l) = 2 /\ l[1] = "read" /\ l[2] \in NumTokens
    \/ Len(l) = 3 /\ l[1] = "write" /\ l[2] \in NumTokens /\ l[3] \in NumTokens
    \/ l = <<"string">>

(* the line starts with a token that is no command *)
Unrecognized(l) == l # <<>> /\ l[1] \notin Commands

(* a read or write whose index or value token is missing or no number *)
Malformed(l) ==
    \/ /\ l # <<>> /\ l[1] = "read"
       /\ Len(l) <= 2
       /\ (Len(l) < 2 \/ l[2] \notin NumTokens)
    \/ /\ l # <<>> /\ l[1] = "write"
       /\ Len(l) <= 3
       /\ \E k \in 2..3 : Len(l) < k \/ l[k] \notin NumTokens

OpOfLine(l) ==
    IF l[1] = "read" THEN Op(READ, NumValue(l[2]), 0)
    ELSE IF l[1] = "write" THEN Op(WRITE, NumValue(l[2]), NumValue(l[3]))
    ELSE Op(STRING_, 0, 0)

(* the operations of the well-formed lines, in file order *)
RECURSIVE OpsOfWellFormed(_)
OpsOfWellFormed(f) ==
    IF f = <<>> THEN <<>>
    ELSE (IF WellFormed(Head(f)) THEN <<OpOfLine(Head(f))>> ELSE <<>>)
            \o OpsOfWellFormed(Tail(f))

FileLines == {file[k] : k \in 1..Len(file)}

(* C14: unrecognized commands are skipped line-wise.  For a file whose      *)
(* lines are well-formed commands, blank, or start with a token that is no  *)
(* command, the loaded stream is the operations of the well-formed lines,   *)
(* in file order.                                                           *)
C14_UnrecognizedSkipped ==
    (/\ loadPc = "loaded"
     /\ \A l \in FileLines : l = <<>> \/ WellFormed(l) \/ Unrecognized(l)) =>
        loaded = OpsOfWellFormed(file)

(* C15: a malformed line is skipped and not fatal.  For a file whose lines  *)
(* are well-formed commands, blank, or read / write commands with a missing *)
(* or non-numeric argument, the loaded stream is the operations of the      *)
(* well-formed lines, in file order.                                        *)
C15_MalformedSkipped ==
    (/\ loadPc = "loaded"
     /\ \A l \in FileLines : l = <<>> \/ WellFormed(l) \/ Malformed(l)) =>
        loaded = OpsOfWellFormed(file)

(* the guards worker w holds, in either mode *)
SharedHeld(w) == {i \in Fields : w \in locks[i].shared}
ExclHeld(w) == {i \in Fields : locks[i].excl = w}

InSnapshotCall(w) == pc[w] \in {"str_lock", "str_read", "str_unlock"}

(* C16: ascending acquisition.  While a to_string call is acquiring or      *)
(* reading, the guards it holds are exactly 0 .. k-1, taken in that order   *)
(* and all in shared mode; it has read nothing before it holds all m; and   *)
(* outside to_string a worker holds at most one guard.                      *)
C16_AscendingAcquisition ==
    \A w \in Workers :
        /\ pc[w] \in {"str_lock", "str_read"} =>
              /\ Len(acquired[w]) <= m
              /\ acquired[w] = [k \in 1..Len(acquired[w]) |-> k - 1]
              /\ SharedHeld(w) = {i \in Fields : i < Len(acquired[w])}
        /\ InSnapshotCall(w) => ExclHeld(w) = {}
        /\ pc[w] = "str_lock" => snapVals[w] = <<>> /\ oss[w] = ""
        /\ pc[w] = "str_read" => Len(acquired[w]) = m
        /\ ~InSnapshotCall(w) => Cardinality(SharedHeld(w) \cup ExclHeld(w)) <= 1

(* a to_string holds guard 0 and has to wait for guard 1, which a write     *)
(* call holds                                                               *)
C16_Witness ==
    \E w, u \in Workers :
        /\ pc[w] = "str_lock"
        /\ Len(acquired[w]) = 1
        /\ pc[u] \in {"write_locked", "write_stored"}
        /\ CurOp(u).idx = 1

(* C17: frame of an in-range write.  The call takes guard idx and no other; *)
(* its store changes vals[idx] to the value and no other field; when it     *)
(* returns vals[idx] is the value; the field count and the guards' index    *)
(* set never change.                                                        *)
C17_WriteFrame ==
    [][/\ \A w \in Workers :
            /\ (pc[w] = "write" /\ pc'[w] = "write_locked") =>
                  /\ locks'[CurOp(w).idx].excl = w
                  /\ \A j \in Fields \ {CurOp(w).idx} : locks'[j] = locks[j]
            /\ pc[w] \in {"write_locked", "write_stored"} =>
                  /\ ExclHeld(w) = {CurOp(w).idx}
                  /\ SharedHeld(w) = {}
            /\ (pc[w] = "write_locked" /\ pc'[w] = "write_stored") =>
                  /\ vals'[CurOp(w).idx] = CurOp(w).value
                  /\ \A j \in Fields \ {CurOp(w).idx} : vals'[j] = vals[j]
            /\ (pc[w] = "write_stored" /\ pc'[w] = "loop") =>
                  /\ vals[CurOp(w).idx] = CurOp(w).value
                  /\ vals' = vals
       /\ m' = m
       /\ DOMAIN vals' = DOMAIN vals
       /\ DOMAIN locks' = DOMAIN locks
       /\ DOMAIN locks = DOMAIN vals]_vars

(* a write has returned, its field holds its value, and another field holds *)
(* what another worker wrote there                                          *)
C17_Witness ==
    \E w \in Workers :
        /\ JustReturned(w, WRITE)
        /\ LastOp(w).idx < m
        /\ LastOp(w).value # InitValue
        /\ vals[LastOp(w).idx] = LastOp(w).value
        /\ \E j \in Fields \ {LastOp(w).idx} :
              /\ vals[j] # InitValue
              /\ \A k \in 1..Len(ops[w]) : ops[w][k].idx # j

(* C18: snapshot releases before formatting.  While a to_string call has    *)
(* text in its output stream, it holds no guard.                            *)
C18_ReleaseBeforeFormat ==
    \A w \in Workers :
        (InSnapshotCall(w) /\ oss[w] # "") => HoldsNothing(w)

(* C19: no guard outlives its call.  Between two operations and after its   *)
(* stream a worker holds no guard; once all workers are done every guard is *)
(* free and the driver's to_string can take all of them at once.            *)
C19_NoGuardOutlivesCall ==
    /\ \A w \in Workers :
          pc[w] \in {"loop", "done"} => HoldsNothing(w) /\ acquired[w] = <<>>
    /\ AllDone =>
          /\ \A i \in Fields : locks[i].excl = NoOwner /\ locks[i].shared = {}
          /\ final = "" => ENABLED FinalSnapshot

(* all workers are done after reads, writes and a snapshot, and the driver  *)
(* has taken its final snapshot                                             *)
C19_Witness ==
    /\ AllDone
    /\ final # ""
    /\ \E w, u, r \in Workers :
          /\ \E k \in 1..Len(ops[w]) : ops[w][k].type = STRING_
          /\ \E k \in 1..Len(ops[u]) : ops[u][k].type = WRITE /\ ops[u][k].idx < m
          /\ \E k \in 1..Len(ops[r]) : ops[r][k].type = READ /\ ops[r][k].idx < m

(* positions of the writes to field i in the stream of worker u *)
WritesTo(u, i) ==
    {k \in 1..Len(ops[u]) : ops[u][k].type = WRITE /\ ops[u][k].idx = i}

(* the position of the last write to i in the stream of u, which writes i *)
LastWrite(u, i) ==
    CHOOSE k \in WritesTo(u, i) : \A l \in WritesTo(u, i) : l <= k

(* the value of the last write to i of each stream that writes i *)
LastWriteValues(i) ==
    {ops[u][LastWrite(u, i)].value : u \in {x \in Workers : WritesTo(x, i) # {}}}

(* C20: final state after the join.  Once all workers are done, a field no  *)
(* stream writes holds the initial value, and any other field holds the     *)
(* value of the last write to it of some stream.                            *)
C20_FinalState ==
    AllDone =>
        \A i \in Fields :
            vals[i] \in (IF \A u \in Workers : WritesTo(u, i) = {}
                         THEN {InitValue}
                         ELSE LastWriteValues(i))

(* all workers are done; one stream wrote a field twice with different      *)
(* values, another stream wrote the same field, and the field holds the     *)
(* second value of the first stream                                         *)
C20_Witness ==
    /\ AllDone
    /\ \E w, u \in Workers : \E i \in Fields :
          /\ w # u
          /\ Cardinality(WritesTo(w, i)) = 2
          /\ \E k \in WritesTo(w, i) : ops[w][k].value # ops[w][LastWrite(w, i)].value
          /\ WritesTo(u, i) # {}
          /\ ops[u][LastWrite(u, i)].value # ops[w][LastWrite(w, i)].value
          /\ vals[i] = ops[w][LastWrite(w, i)].value

====
